---- MODULE Spec2Model ----
(***************************************************************************)
(* Model of mistral.py: the retry_on_error decorator, split_pdf, and the   *)
(* chunked pipeline main -> process_pdf_in_chunks ->                       *)
(* convert_pdf_to_markdown -> upload_file_to_ocr_service /                 *)
(* process_with_ocr.                                                       *)
(*                                                                         *)
(* The specifications share the variables:                                 *)
(*   SpecRetry  one call of a function wrapped by retry_on_error, with the *)
(*              decorator parameters drawn from bounded sets;              *)
(*   SpecSplit  one call of split_pdf on a bounded document;               *)
(*   Spec       a run of main with --split on a bounded document, the      *)
(*              remote service answering each call nondeterministically;   *)
(*   LiveSpec   Spec with weak fairness of the program's steps;            *)
(*   SpecTiers  Spec on a smaller document, counting the remote            *)
(*              invocations made for each chunk;                           *)
(*   SpecInterrupt  Spec with one KeyboardInterrupt delivered;             *)
(*   SpecMain   main from the parsed command line (credential, retry       *)
(*              options) on a smaller document.                            *)
(* Delays are integers (seconds); file contents are sequences of tokens.   *)
(***************************************************************************)
EXTENDS Integers, Sequences, FiniteSets, TLC

VARIABLES
    \* ---- retry_on_error.wrapper (one activation at a time) ----
    fn,              \* the wrapped function being executed, "none" when idle
    max_retries,     \* decorator parameter
    initial_delay,   \* decorator parameter
    backoff_factor,  \* decorator parameter
    retry,           \* loop variable of `for retry in range(max_retries + 1)`
    delay,           \* local `delay`
    last_exception,  \* local `last_exception`
    wpc,             \* position in wrapper: idle, try, sleep, returned, raised
    raised,          \* the exception that left the wrapper (NoExc if none)
    wret,            \* the value the wrapper returned
    calls,           \* history: invocations of func by this activation
    sleeps,          \* history: time.sleep arguments of this activation
    outcomes,        \* history: class of each invocation's outcome
    func_exc,        \* history: what the latest invocation raised (NoExc if it returned)
    remote_made,     \* history: a wrapped remote function has been invoked
    \* ---- split_pdf ----
    pdf_readable,    \* PdfReader(pdf_path) succeeds
    total_pages,     \* len(pdf.pages)
    num_chunks,      \* args.chunks
    split_result,    \* outcome of split_pdf: [err, chunks]
    \* ---- main / process_pdf_in_chunks / convert_pdf_to_markdown ----
    pc,              \* position in main / process_pdf_in_chunks
    args_output,     \* args.output
    output_path,     \* main's output_path
    chunk_paths,     \* list returned by split_pdf
    i,               \* loop index of `for i, chunk_path in enumerate(...)`
    chunk_retry,     \* loop variable `retry` of the per-chunk retry loop
    chunk_outputs,   \* list of chunk output paths (a path is the ordinal)
    failed_chunks,   \* list of failed ordinals
    chunk_files,     \* contents of the per-chunk .md files
    merged_file,     \* contents of the file at output_path
    result,          \* value returned by process_pdf_in_chunks
    signed_url,      \* convert_pdf_to_markdown's local signed_url
    result_path,     \* value returned by convert_pdf_to_markdown (0 is None)
    outer_sleeps,    \* history: time.sleep arguments of the current chunk's retry loop
    convLog,         \* history: per ordinal, whether each convert call succeeded
    interrupted,     \* a KeyboardInterrupt was delivered
    client_key,      \* the api_key of the latest Mistral(api_key=...) client
    conv_steps,      \* history: the remote steps of the current convert call
    upload_calls,    \* history: invocations of upload_file_to_ocr_service for the
                     \* current chunk by the wrapper activations that have ended
    ocr_calls,       \* history: the same for process_with_ocr
    upload_retryable,   \* history: every such upload invocation raised a retryable error
    counting,        \* the three histories above are recorded (SpecTiers only)
    \* ---- main: command line and credential ----
    args_api_key,    \* args.api_key
    env_api_key,     \* os.getenv("MISTRAL_API_KEY")
    args_max_retries,   \* args.max_retries
    args_retry_delay,   \* args.retry_delay
    api_key          \* main's api_key

wvars == <<fn, max_retries, initial_delay, backoff_factor, retry, delay,
           last_exception, wpc, raised, wret, calls, sleeps, outcomes, func_exc,
           remote_made>>
svars == <<pdf_readable, total_pages, num_chunks, split_result>>
pvars == <<pc, args_output, output_path, chunk_paths, i, chunk_retry,
           chunk_outputs, failed_chunks, chunk_files, merged_file, result,
           signed_url, result_path, outer_sleeps, convLog, interrupted,
           client_key, conv_steps>>
mvars == <<args_api_key, env_api_key, args_max_retries, args_retry_delay, api_key>>
hvars == <<upload_calls, ocr_calls, upload_retryable, counting>>
vars == <<wvars, svars, pvars, mvars, hvars>>

(***************************************************************************)
(* Bounds                                                                  *)
(***************************************************************************)
MaxRetriesBound == 3   \* max_retries ranges over -1..MaxRetriesBound in SpecRetry
MaxDelay == 2          \* initial_delay ranges over 1..MaxDelay in SpecRetry
MaxFactor == 3         \* backoff_factor ranges over 1..MaxFactor in SpecRetry
MaxSplitPages == 8     \* total_pages ranges over 0..MaxSplitPages in SpecSplit
MaxSplitChunks == 10   \* num_chunks ranges over 0..MaxSplitChunks in SpecSplit
MaxPages == 4          \* total_pages ranges over 0..MaxPages in Spec

(***************************************************************************)
(* Exceptions.  An exception object is a record; id distinguishes the      *)
(* objects raised by different invocations.                                *)
(***************************************************************************)
NoExc == [kind |-> "None", status_code |-> 0, id |-> 0]

\* status codes the service reports: 400 bad request, 502 bad gateway
StatusCodes == {400, 502}

\* the exceptions a remote call can raise at its n-th invocation
RemoteErrors(n) ==
    {[kind |-> "MistralAPIException", status_code |-> s, id |-> n] : s \in StatusCodes}
    \cup {[kind |-> "ConnectionError", status_code |-> 0, id |-> n],
          [kind |-> "ValueError", status_code |-> 0, id |-> n]}

\* retry_on_exceptions=(MistralAPIException, ConnectionError)
retry_on_exceptions == {"MistralAPIException", "ConnectionError"}

\* `except retry_on_exceptions as e` matches e
Caught(e) == e.kind \in retry_on_exceptions

\* class of an invocation's outcome, relative to retry_on_exceptions (history only)
OutcomeClass(e) ==
    IF e = NoExc THEN "ok"
    ELSE IF e.kind \in retry_on_exceptions THEN "retryable" ELSE "other"

(***************************************************************************)
(* retry_on_error.wrapper                                                  *)
(***************************************************************************)
\* `if retry < max_retries:` -- another attempt follows the caught exception
Mut_MoreRetries(r, m) == r + 1 < m
Mut_MoreRetriesInclusive(r, m) == r <= m
MoreRetries(r, m) == r < m

\* `delay *= backoff_factor`
Mut_NextDelay(d, f) == d + f
NextDelay(d, f) == d * f

\* the exception object re-raised when the retries are exhausted:
\* `last_exception = e` ... `raise last_exception`
Mut_Reraised(prev, e) == IF prev = NoExc THEN e ELSE prev
Reraised(prev, e) == e

\* entry of wrapper(*args, **kwargs): delay = initial_delay; last_exception = None
WrapperEntry(f, m, d, b) ==
    /\ fn' = f
    /\ max_retries' = m
    /\ initial_delay' = d
    /\ backoff_factor' = b
    /\ retry' = 0
    /\ delay' = d
    /\ last_exception' = NoExc
    /\ wpc' = "try"
    /\ raised' = NoExc
    /\ wret' = <<>>
    /\ calls' = 0
    /\ sleeps' = <<>>
    /\ outcomes' = <<>>
    /\ func_exc' = NoExc
    /\ UNCHANGED remote_made

\* the functions decorated with retry_on_error that main --split reaches
RemoteCalls == {"upload_file_to_ocr_service", "process_with_ocr"}

\* a per-chunk invocation count after a wrapper activation that made n calls
Tally(old, n) == IF counting THEN old + n ELSE old

\* every invocation so far raised an exception matching retry_on_exceptions
AllRetryable == \A k \in 1..Len(outcomes) : outcomes[k] = "retryable"

\* the value func returns at this invocation: the signed URL of this upload,
\* the OCR response for the document behind document_url, or a plain value
FuncValue ==
    CASE fn = "upload_file_to_ocr_service" ->
             <<"url", i + 1, chunk_retry, calls + 1>>
      [] fn = "process_with_ocr" -> <<"ocr", signed_url[2]>>
      [] OTHER -> <<"ok">>

\* one iteration of the for loop in which func returns: `return func(...)`
WrapperReturn ==
    /\ wpc = "try"
    /\ retry <= max_retries
    /\ calls' = calls + 1
    /\ outcomes' = Append(outcomes, "ok")
    /\ func_exc' = NoExc
    /\ remote_made' = (remote_made \/ fn \in RemoteCalls)
    /\ wret' = FuncValue
    /\ wpc' = "returned"
    /\ UNCHANGED <<fn, max_retries, initial_delay, backoff_factor, retry, delay,
                   last_exception, raised, sleeps>>

\* one iteration in which func raises e: caught by `except retry_on_exceptions`
\* (then sleep or re-raise), or propagating when it does not match
WrapperRaise ==
    /\ wpc = "try"
    /\ retry <= max_retries
    /\ \E e \in RemoteErrors(calls + 1) :
          /\ calls' = calls + 1
          /\ outcomes' = Append(outcomes, OutcomeClass(e))
          /\ func_exc' = e
          /\ remote_made' = (remote_made \/ fn \in RemoteCalls)
          /\ IF Caught(e)
             THEN /\ last_exception' = Reraised(last_exception, e)
                  /\ IF MoreRetries(retry, max_retries)
                     THEN wpc' = "sleep" /\ raised' = raised
                     ELSE wpc' = "raised" /\ raised' = last_exception'
             ELSE /\ last_exception' = last_exception
                  /\ wpc' = "raised"
                  /\ raised' = e
    /\ UNCHANGED <<fn, max_retries, initial_delay, backoff_factor, retry, delay,
                   wret, sleeps>>

\* `time.sleep(delay); delay *= backoff_factor`, then the next iteration
WrapperSleep ==
    /\ wpc = "sleep"
    /\ sleeps' = Append(sleeps, delay)
    /\ delay' = NextDelay(delay, backoff_factor)
    /\ retry' = retry + 1
    /\ wpc' = "try"
    /\ UNCHANGED <<fn, max_retries, initial_delay, backoff_factor,
                   last_exception, raised, wret, calls, outcomes, func_exc,
                   remote_made>>

\* range(max_retries + 1) is empty (max_retries < 0): the loop body never runs
\* and the trailing `raise last_exception` raises None, a TypeError
WrapperFallThrough ==
    /\ wpc = "try"
    /\ retry > max_retries
    /\ raised' = [kind |-> "TypeError", status_code |-> 0, id |-> 0]
    /\ wpc' = "raised"
    /\ UNCHANGED <<fn, max_retries, initial_delay, backoff_factor, retry, delay,
                   last_exception, wret, calls, sleeps, outcomes, func_exc,
                   remote_made>>

WrapperIdle ==
    /\ fn = "none" /\ max_retries = 0 /\ initial_delay = 0 /\ backoff_factor = 0
    /\ retry = 0 /\ delay = 0 /\ last_exception = NoExc /\ wpc = "idle"
    /\ raised = NoExc /\ wret = <<>> /\ calls = 0 /\ sleeps = <<>>
    /\ outcomes = <<>> /\ func_exc = NoExc /\ remote_made = FALSE

(***************************************************************************)
(* split_pdf.  A chunk file is the page range [start, end) it holds,       *)
(* 0-based as in the code.                                                 *)
(***************************************************************************)
Min(a, b) == IF a < b THEN a ELSE b
Max(a, b) == IF a > b THEN a ELSE b

\* math.ceil(a / b) for a >= 0, b > 0
CeilDiv(a, b) == (a + b - 1) \div b

\* pages_per_chunk = max(1, math.ceil(total_pages / num_chunks))
Mut_pages_per_chunk(tp, nc) == Max(1, tp \div nc)
pages_per_chunk(tp, nc) == Max(1, CeilDiv(tp, nc))

\* actual_chunks = math.ceil(total_pages / pages_per_chunk)
Mut_actual_chunks(tp, nc) == nc
actual_chunks(tp, nc) == CeilDiv(tp, pages_per_chunk(tp, nc))

\* start_page = i * pages_per_chunk; end_page = min((i + 1) * pages_per_chunk, total_pages)
Mut_ChunkRange(k, ppc, tp) == [start |-> k * ppc, end |-> (k + 1) * ppc]
ChunkRange(k, ppc, tp) == [start |-> k * ppc, end |-> Min((k + 1) * ppc, tp)]

\* the list chunk_paths built by `for i in range(actual_chunks)`
ChunkList(tp, nc) ==
    [k \in 1..actual_chunks(tp, nc) |-> ChunkRange(k - 1, pages_per_chunk(tp, nc), tp)]

\* split_pdf(pdf_path, num_chunks=nc): the list of chunks, or the exception
\* raised (PdfReader on an unreadable file; total_pages / 0)
Mut_split_pdf(readable, tp, nc) ==
    IF ~readable THEN [err |-> "PdfReadError", chunks |-> <<>>]
    ELSE [err |-> "none", chunks |-> ChunkList(tp, Max(nc, 1))]
split_pdf(readable, tp, nc) ==
    IF ~readable THEN [err |-> "PdfReadError", chunks |-> <<>>]
    ELSE IF nc = 0 THEN [err |-> "ZeroDivisionError", chunks |-> <<>>]
    ELSE [err |-> "none", chunks |-> ChunkList(tp, nc)]

NotSplit == [err |-> "pending", chunks |-> <<>>]

\* inputs of split_pdf: an unreadable file has no page count
SplitInputs(maxPages, maxChunks) ==
    /\ pdf_readable \in BOOLEAN
    /\ total_pages \in 0..maxPages
    /\ (~pdf_readable => total_pages = 0)
    /\ num_chunks \in 0..maxChunks
    /\ split_result = NotSplit

\* a direct call of split_pdf
SplitCall ==
    /\ split_result = NotSplit
    /\ split_result' = split_pdf(pdf_readable, total_pages, num_chunks)
    /\ UNCHANGED <<pdf_readable, total_pages, num_chunks>>

SplitIdle ==
    /\ pdf_readable = TRUE /\ total_pages = 0 /\ num_chunks = 0
    /\ split_result = NotSplit

(***************************************************************************)
(* main / process_pdf_in_chunks / convert_pdf_to_markdown                  *)
(***************************************************************************)
NoFile == <<-1>>       \* the file does not exist
Sep == 0               \* the token "\n\n"; a page's markdown is its page number

PipelineIdle ==
    /\ pc = "idle" /\ args_output = "None" /\ output_path = "None"
    /\ chunk_paths = <<>> /\ i = 0 /\ chunk_retry = 0
    /\ chunk_outputs = <<>> /\ failed_chunks = <<>>
    /\ chunk_files = <<>> /\ merged_file = NoFile /\ result = "pending"
    /\ signed_url = <<>> /\ result_path = 0 /\ outer_sleeps = <<>>
    /\ convLog = <<>>
    /\ interrupted = FALSE /\ client_key = "None" /\ conv_steps = <<>>
    /\ upload_calls = 0 /\ ocr_calls = 0 /\ upload_retryable = TRUE
    /\ counting = FALSE
    /\ args_api_key = "None" /\ env_api_key = "None" /\ api_key = "None"
    /\ args_max_retries = 0 /\ args_retry_delay = 0

\* max_chunk_retries = 2
max_chunk_retries == 2

\* @retry_on_error(max_retries=3, initial_delay=2.0) with the default backoff_factor=2.0
DecoratorMaxRetries == 3
DecoratorInitialDelay == 2
DecoratorBackoffFactor == 2

\* return to the caller of the wrapped function: the activation is gone
WrapperExit ==
    /\ fn' = "none" /\ max_retries' = 0 /\ initial_delay' = 0 /\ backoff_factor' = 0
    /\ retry' = 0 /\ delay' = 0 /\ last_exception' = NoExc /\ wpc' = "idle"
    /\ raised' = NoExc /\ wret' = <<>> /\ calls' = 0 /\ sleeps' = <<>>
    /\ outcomes' = <<>> /\ func_exc' = NoExc
    /\ UNCHANGED remote_made

\* get_combined_markdown on the response for pages lo..hi: "\n\n".join(markdowns)
RECURSIVE JoinPages(_, _)
JoinPages(lo, hi) ==
    IF lo > hi THEN <<>>
    ELSE IF lo = hi THEN <<lo>>
    ELSE <<lo, Sep>> \o JoinPages(lo + 1, hi)

\* the markdown the OCR service extracts from the chunk file of ordinal k
get_combined_markdown(k) == JoinPages(chunk_paths[k].start + 1, chunk_paths[k].end)

\* what the combine loop writes: for each chunk output, its content then "\n\n"
RECURSIVE CombinedContent(_, _)
CombinedContent(outs, files) ==
    IF outs = <<>> THEN <<>>
    ELSE files[Head(outs)] \o <<Sep>> \o CombinedContent(Tail(outs), files)

\* convert_pdf_to_markdown's local signed_url once the call has returned or
\* raised: the frame is gone, the next call starts without a reference
Mut_LocalAfterReturn(url) == url
LocalAfterReturn(url) == <<>>

\* the chunk's output file after a convert call: `open(output_path, "w")` and
\* `write(markdown_content)` run only when both remote steps returned
Mut_FileAfterConvert(old, ok, content) == IF ok THEN content ELSE <<>>
FileAfterConvert(old, ok, content) == IF ok THEN content ELSE old

\* `failed_chunks.append(i+1)`: the ordinal recorded for loop index idx
Mut_FailedOrdinal(idx) == idx
FailedOrdinal(idx) == idx + 1

\* `if output_path and chunk_outputs:`
Mut_ShouldCombine(op, outs) == op # "None"
ShouldCombine(op, outs) == op # "None" /\ outs # <<>>

\* the index the chunk loop moves to once chunk idx of n is given up: the
\* inner retry loop ends and `for i, chunk_path in enumerate(...)` continues
Mut_NextAfterFailure(idx, n) == n
NextAfterFailure(idx, n) == idx + 1

\* the outcome the final messages report (lines 530-539)
PipelineStatus ==
    IF chunk_outputs = <<>> THEN "Failed"
    ELSE IF failed_chunks # <<>> THEN "Partial"
    ELSE "Complete"

\* main: output_path = args.output, or derived from file_path; then, with
\* --split on a .pdf, process_pdf_in_chunks(api_key, file_path, output_path, ...)
MainDispatch ==
    /\ pc = "main"
    /\ output_path' = IF args_output = "None" THEN "doc.md" ELSE args_output
    /\ pc' = "split"
    /\ UNCHANGED <<hvars, mvars, interrupted, client_key, conv_steps, args_output, chunk_paths, i, chunk_retry, chunk_outputs,
                   failed_chunks, chunk_files, merged_file, result, signed_url,
                   result_path, outer_sleeps, convLog>>
    /\ UNCHANGED <<wvars, svars>>

\* process_pdf_in_chunks: try split_pdf; on any exception return None
PipelineSplit ==
    /\ pc = "split"
    /\ split_result' = split_pdf(pdf_readable, total_pages, num_chunks)
    /\ IF split_result'.err # "none"
       THEN /\ result' = "None"
            /\ pc' = "done"
            /\ UNCHANGED <<chunk_paths, chunk_files, convLog>>
       ELSE /\ chunk_paths' = split_result'.chunks
            /\ chunk_files' = [k \in 1..Len(split_result'.chunks) |-> NoFile]
            /\ convLog' = [k \in 1..Len(split_result'.chunks) |-> <<>>]
            /\ pc' = "for_chunk"
            /\ UNCHANGED result
    /\ UNCHANGED <<hvars, mvars, interrupted, client_key, conv_steps, args_output, output_path, i, chunk_retry, chunk_outputs,
                   failed_chunks, merged_file, signed_url, result_path, outer_sleeps>>
    /\ UNCHANGED <<wvars, pdf_readable, total_pages, num_chunks>>

\* next iteration of `for i, chunk_path in enumerate(chunk_paths)`: the chunk's
\* output path is fixed and its retry loop starts
ChunkBegin ==
    /\ pc = "for_chunk"
    /\ i < Len(chunk_paths)
    /\ chunk_retry' = 0
    /\ outer_sleeps' = <<>>
    /\ pc' = "convert"
    /\ upload_calls' = 0 /\ ocr_calls' = 0 /\ upload_retryable' = TRUE
    /\ UNCHANGED counting
    /\ UNCHANGED <<mvars, interrupted, client_key, conv_steps, args_output, output_path, chunk_paths, i, chunk_outputs,
                   failed_chunks, chunk_files, merged_file, result, signed_url,
                   result_path, convLog>>
    /\ UNCHANGED <<wvars, svars>>

\* convert_pdf_to_markdown(api_key, chunk_path, chunk_output_path, model) up to
\* the call of upload_file_to_ocr_service
ConvertCall ==
    /\ pc = "convert"
    /\ chunk_retry <= max_chunk_retries
    /\ WrapperEntry("upload_file_to_ocr_service", DecoratorMaxRetries,
                    DecoratorInitialDelay, DecoratorBackoffFactor)
    /\ pc' = "upload"
    /\ client_key' = api_key
    /\ conv_steps' = <<>>
    /\ UNCHANGED <<hvars, mvars, interrupted, args_output, output_path, chunk_paths, i, chunk_retry,
                   chunk_outputs, failed_chunks, chunk_files, merged_file, result,
                   signed_url, result_path, outer_sleeps, convLog>>
    /\ UNCHANGED svars

\* the upload raised: `except Exception` prints and convert returns None
UploadFailed ==
    /\ pc = "upload"
    /\ wpc = "raised"
    /\ WrapperExit
    /\ result_path' = 0
    /\ convLog' = [convLog EXCEPT ![i + 1] = Append(@, FALSE)]
    /\ pc' = "converted"
    /\ conv_steps' = Append(conv_steps, [op |-> "submit", ok |-> FALSE, ref |-> <<>>])
    /\ upload_calls' = Tally(upload_calls, calls)
    /\ upload_retryable' = (upload_retryable /\ (counting => AllRetryable))
    /\ UNCHANGED <<ocr_calls, counting>>
    /\ UNCHANGED <<mvars, interrupted, client_key, args_output, output_path, chunk_paths, i, chunk_retry,
                   chunk_outputs, failed_chunks, chunk_files, merged_file, result,
                   signed_url, outer_sleeps>>
    /\ UNCHANGED svars

\* the upload returned the signed URL: process_with_ocr(client, signed_url.url, model)
UploadReturned ==
    /\ pc = "upload"
    /\ wpc = "returned"
    /\ signed_url' = wret
    /\ WrapperEntry("process_with_ocr", DecoratorMaxRetries,
                    DecoratorInitialDelay, DecoratorBackoffFactor)
    /\ pc' = "ocr"
    /\ conv_steps' = Append(conv_steps, [op |-> "submit", ok |-> TRUE, ref |-> wret])
    /\ upload_calls' = Tally(upload_calls, calls)
    /\ upload_retryable' = (upload_retryable /\ ~counting)
    /\ UNCHANGED <<ocr_calls, counting>>
    /\ UNCHANGED <<mvars, interrupted, client_key, args_output, output_path, chunk_paths, i, chunk_retry,
                   chunk_outputs, failed_chunks, chunk_files, merged_file, result,
                   result_path, outer_sleeps, convLog>>
    /\ UNCHANGED svars

\* the OCR call raised: `except Exception` prints and convert returns None
OcrFailed ==
    /\ pc = "ocr"
    /\ wpc = "raised"
    /\ WrapperExit
    /\ signed_url' = LocalAfterReturn(signed_url)
    /\ result_path' = 0
    /\ convLog' = [convLog EXCEPT ![i + 1] = Append(@, FALSE)]
    /\ pc' = "converted"
    /\ conv_steps' = Append(conv_steps, [op |-> "extract", ok |-> FALSE, ref |-> signed_url])
    /\ chunk_files' = [chunk_files EXCEPT ![i + 1] = FileAfterConvert(@, FALSE, <<>>)]
    /\ ocr_calls' = Tally(ocr_calls, calls)
    /\ UNCHANGED <<upload_calls, upload_retryable, counting>>
    /\ UNCHANGED <<mvars, interrupted, client_key, args_output, output_path, chunk_paths, i, chunk_retry,
                   chunk_outputs, failed_chunks, merged_file, result,
                   outer_sleeps>>
    /\ UNCHANGED svars

\* the OCR call returned: the combined markdown is written to the chunk's
\* output file and convert returns that path (local file I/O and the
\* serialisation of the response for the usage report are taken to succeed)
OcrReturned ==
    /\ pc = "ocr"
    /\ wpc = "returned"
    /\ chunk_files' = [chunk_files EXCEPT
          ![i + 1] = FileAfterConvert(@, TRUE, get_combined_markdown(wret[2]))]
    /\ WrapperExit
    /\ signed_url' = LocalAfterReturn(signed_url)
    /\ result_path' = i + 1
    /\ convLog' = [convLog EXCEPT ![i + 1] = Append(@, TRUE)]
    /\ pc' = "converted"
    /\ conv_steps' = Append(conv_steps, [op |-> "extract", ok |-> TRUE, ref |-> signed_url])
    /\ ocr_calls' = Tally(ocr_calls, calls)
    /\ UNCHANGED <<upload_calls, upload_retryable, counting>>
    /\ UNCHANGED <<mvars, interrupted, client_key, args_output, output_path, chunk_paths, i, chunk_retry,
                   chunk_outputs, failed_chunks, merged_file, result, outer_sleeps>>
    /\ UNCHANGED svars

\* `if result_path: chunk_outputs.append(result_path); break`
ChunkSucceeded ==
    /\ pc = "converted"
    /\ result_path # 0
    /\ chunk_outputs' = Append(chunk_outputs, result_path)
    /\ result_path' = 0
    /\ i' = i + 1
    /\ pc' = "for_chunk"
    /\ conv_steps' = <<>>
    /\ UNCHANGED <<hvars, mvars, interrupted, client_key, args_output, output_path, chunk_paths, chunk_retry,
                   failed_chunks, chunk_files, merged_file, result, signed_url,
                   outer_sleeps, convLog>>
    /\ UNCHANGED <<wvars, svars>>

\* `time.sleep(2 * (retry + 1))`: the sleep after the failed attempt of loop index r
Mut_OuterDelay(r) == 2
OuterDelay(r) == 2 * (r + 1)

\* `else: if retry < max_chunk_retries: time.sleep(2 * (retry + 1))`, then the
\* next iteration of the retry loop
ChunkRetry ==
    /\ pc = "converted"
    /\ result_path = 0
    /\ chunk_retry < max_chunk_retries
    /\ outer_sleeps' = Append(outer_sleeps, OuterDelay(chunk_retry))
    /\ chunk_retry' = chunk_retry + 1
    /\ pc' = "convert"
    /\ conv_steps' = <<>>
    /\ UNCHANGED <<hvars, mvars, interrupted, client_key, args_output, output_path, chunk_paths, i, chunk_outputs,
                   failed_chunks, chunk_files, merged_file, result, signed_url,
                   result_path, convLog>>
    /\ UNCHANGED <<wvars, svars>>

\* `else: failed_chunks.append(i+1)`: the retry loop is exhausted
ChunkGivenUp ==
    /\ pc = "converted"
    /\ result_path = 0
    /\ ~(chunk_retry < max_chunk_retries)
    /\ failed_chunks' = Append(failed_chunks, FailedOrdinal(i))
    /\ i' = NextAfterFailure(i, Len(chunk_paths))
    /\ pc' = "for_chunk"
    /\ conv_steps' = <<>>
    /\ UNCHANGED <<hvars, mvars, interrupted, client_key, args_output, output_path, chunk_paths, chunk_retry,
                   chunk_outputs, chunk_files, merged_file, result, signed_url,
                   result_path, outer_sleeps, convLog>>
    /\ UNCHANGED <<wvars, svars>>

\* after the chunk loop: combine the chunk outputs into output_path and return
\* it, or return None when no chunk succeeded, or return the list
Combine ==
    /\ pc = "for_chunk"
    /\ ~(i < Len(chunk_paths))
    /\ IF ShouldCombine(output_path, chunk_outputs)
       THEN /\ merged_file' = CombinedContent(chunk_outputs, chunk_files)
            /\ result' = output_path
       ELSE /\ merged_file' = merged_file
            /\ result' = IF chunk_outputs = <<>> THEN "None" ELSE "chunk_outputs"
    /\ pc' = "done"
    /\ UNCHANGED <<hvars, mvars, interrupted, client_key, conv_steps, args_output, output_path, chunk_paths, i, chunk_retry,
                   chunk_outputs, failed_chunks, chunk_files, signed_url,
                   result_path, outer_sleeps, convLog>>
    /\ UNCHANGED <<wvars, svars>>

(***************************************************************************)
(* SpecRetry: one call of a function decorated with                        *)
(* retry_on_error(max_retries, initial_delay, backoff_factor)              *)
(***************************************************************************)
InitRetry ==
    /\ fn = "func"
    /\ max_retries \in -1..MaxRetriesBound
    /\ initial_delay \in 1..MaxDelay
    /\ backoff_factor \in 1..MaxFactor
    /\ retry = 0
    /\ delay = initial_delay
    /\ last_exception = NoExc
    /\ wpc = "try"
    /\ raised = NoExc /\ wret = <<>> /\ calls = 0 /\ sleeps = <<>>
    /\ outcomes = <<>> /\ func_exc = NoExc /\ remote_made = FALSE
    /\ SplitIdle
    /\ PipelineIdle

NextRetry ==
    \/ WrapperReturn /\ UNCHANGED <<svars, pvars, mvars, hvars>>
    \/ WrapperRaise /\ UNCHANGED <<svars, pvars, mvars, hvars>>
    \/ WrapperSleep /\ UNCHANGED <<svars, pvars, mvars, hvars>>
    \/ WrapperFallThrough /\ UNCHANGED <<svars, pvars, mvars, hvars>>

SpecRetry == InitRetry /\ [][NextRetry]_vars

(***************************************************************************)
(* SpecSplit: one call of split_pdf                                        *)
(***************************************************************************)
InitSplit ==
    /\ SplitInputs(MaxSplitPages, MaxSplitChunks)
    /\ WrapperIdle
    /\ PipelineIdle

NextSplit == SplitCall /\ UNCHANGED <<wvars, pvars, mvars, hvars>>

SpecSplit == InitSplit /\ [][NextSplit]_vars

(***************************************************************************)
(* Spec: main with --split on a .pdf file.  LiveSpec adds that the         *)
(* single-threaded program keeps running while it has a step to take       *)
(* (every remote call returns or raises, every sleep ends).                *)
(***************************************************************************)
\* nothing of process_pdf_in_chunks has run yet
NotStarted ==
    /\ WrapperIdle
    /\ args_output \in {"None", "out.md"}
    /\ output_path = "None"
    /\ chunk_paths = <<>> /\ i = 0 /\ chunk_retry = 0
    /\ chunk_outputs = <<>> /\ failed_chunks = <<>>
    /\ chunk_files = <<>> /\ merged_file = NoFile /\ result = "pending"
    /\ signed_url = <<>> /\ result_path = 0 /\ outer_sleeps = <<>>
    /\ convLog = <<>>
    /\ interrupted = FALSE /\ client_key = "None" /\ conv_steps = <<>>
    /\ upload_calls = 0 /\ ocr_calls = 0 /\ upload_retryable = TRUE

\* main past the credential and file checks: the key came from --api-key and
\* --max-retries / --retry-delay have their argparse defaults
Init ==
    /\ SplitInputs(MaxPages, MaxPages + 1)
    /\ NotStarted
    /\ pc = "main"
    /\ args_api_key = "flag-key" /\ env_api_key = "None" /\ api_key = "flag-key"
    /\ args_max_retries = 3 /\ args_retry_delay = 2
    /\ counting = FALSE

Next ==
    \/ MainDispatch
    \/ PipelineSplit
    \/ ChunkBegin
    \/ ConvertCall
    \/ WrapperReturn /\ UNCHANGED <<svars, pvars, mvars, hvars>>
    \/ WrapperRaise /\ UNCHANGED <<svars, pvars, mvars, hvars>>
    \/ WrapperSleep /\ UNCHANGED <<svars, pvars, mvars, hvars>>
    \/ UploadFailed
    \/ UploadReturned
    \/ OcrFailed
    \/ OcrReturned
    \/ ChunkSucceeded
    \/ ChunkRetry
    \/ ChunkGivenUp
    \/ Combine

Spec == Init /\ [][Next]_vars

LiveSpec == Init /\ [][Next]_vars /\ WF_vars(Next)

(***************************************************************************)
(* SpecTiers: Spec on a smaller document, with the remote invocations of   *)
(* each chunk counted across its convert calls                             *)
(***************************************************************************)
MaxTierPages == 2      \* total_pages ranges over 0..MaxTierPages in SpecTiers

InitTiers ==
    /\ SplitInputs(MaxTierPages, MaxTierPages + 1)
    /\ NotStarted
    /\ pc = "main"
    /\ args_api_key = "flag-key" /\ env_api_key = "None" /\ api_key = "flag-key"
    /\ args_max_retries = 3 /\ args_retry_delay = 2
    /\ counting = TRUE

SpecTiers == InitTiers /\ [][Next]_vars

(***************************************************************************)
(* SpecInterrupt: Spec with one Ctrl-C delivered while a remote call, a    *)
(* backoff sleep or the sleep between two attempts of a chunk is running.  *)
(***************************************************************************)
KeyboardInterrupt == [kind |-> "KeyboardInterrupt", status_code |-> 0, id |-> 0]

\* `except Exception` matches e: KeyboardInterrupt derives from BaseException only
Mut_ExceptExceptionCatches(e) == TRUE
ExceptExceptionCatches(e) == e.kind # "KeyboardInterrupt"

\* KeyboardInterrupt raised inside a wrapped remote call or inside the
\* wrapper's time.sleep: it passes `except retry_on_exceptions`, then the
\* `except Exception` clauses of convert_pdf_to_markdown and
\* process_pdf_in_chunks, and reaches main's `except KeyboardInterrupt`
InterruptInConvert ==
    /\ ~interrupted
    /\ pc \in {"upload", "ocr"}
    /\ wpc \in {"try", "sleep"}
    /\ ~Caught(KeyboardInterrupt)
    /\ interrupted' = TRUE
    /\ WrapperExit
    /\ signed_url' = LocalAfterReturn(signed_url)
    /\ IF ExceptExceptionCatches(KeyboardInterrupt)
       THEN /\ result_path' = 0
            /\ convLog' = [convLog EXCEPT ![i + 1] = Append(@, FALSE)]
            /\ conv_steps' = Append(conv_steps,
                   [op |-> IF pc = "upload" THEN "submit" ELSE "extract",
                    ok |-> FALSE, ref |-> signed_url])
            /\ pc' = "converted"
       ELSE /\ pc' = "interrupted"
            /\ UNCHANGED <<result_path, convLog, conv_steps>>
    /\ upload_calls' = Tally(upload_calls, IF pc = "upload" THEN calls ELSE 0)
    /\ ocr_calls' = Tally(ocr_calls, IF pc = "ocr" THEN calls ELSE 0)
    /\ UNCHANGED <<upload_retryable, counting>>
    /\ UNCHANGED <<mvars, client_key, args_output, output_path, chunk_paths, i,
                   chunk_retry, chunk_outputs, failed_chunks, chunk_files,
                   merged_file, result, outer_sleeps>>
    /\ UNCHANGED svars

\* KeyboardInterrupt raised inside `time.sleep(2 * (retry + 1))`: it passes the
\* `except Exception` of the chunk's retry loop and reaches main
InterruptOuterSleep ==
    /\ ~interrupted
    /\ pc = "converted"
    /\ result_path = 0
    /\ chunk_retry < max_chunk_retries
    /\ interrupted' = TRUE
    /\ IF ExceptExceptionCatches(KeyboardInterrupt)
       THEN /\ outer_sleeps' = Append(outer_sleeps, OuterDelay(chunk_retry))
            /\ chunk_retry' = chunk_retry + 1
            /\ conv_steps' = <<>>
            /\ pc' = "convert"
       ELSE /\ pc' = "interrupted"
            /\ UNCHANGED <<outer_sleeps, chunk_retry, conv_steps>>
    /\ UNCHANGED <<hvars, mvars, client_key, args_output, output_path, chunk_paths, i,
                   chunk_outputs, failed_chunks, chunk_files, merged_file, result,
                   signed_url, result_path, convLog>>
    /\ UNCHANGED <<wvars, svars>>

NextInterrupt ==
    \/ Next
    \/ InterruptInConvert
    \/ InterruptOuterSleep

SpecInterrupt == Init /\ [][NextInterrupt]_vars

(***************************************************************************)
(* SpecMain: main from the parsed command line, on a smaller document      *)
(***************************************************************************)
MaxMainPages == 1      \* total_pages ranges over 0..MaxMainPages in SpecMain
MaxArgRetries == 4     \* --max-retries ranges over 0..MaxArgRetries in SpecMain
MaxArgDelay == 3       \* --retry-delay ranges over 1..MaxArgDelay in SpecMain

\* api_key = args.api_key or os.getenv("MISTRAL_API_KEY")
Mut_ResolveKey(flag, env) == IF env # "None" THEN env ELSE flag
ResolveKey(flag, env) == IF flag # "None" THEN flag ELSE env

\* main: resolve the credential; `if not api_key:` print the error and return
MainCredential ==
    /\ pc = "start"
    /\ api_key' = ResolveKey(args_api_key, env_api_key)
    /\ pc' = IF api_key' = "None" THEN "config_error" ELSE "main"
    /\ UNCHANGED <<args_api_key, env_api_key, args_max_retries, args_retry_delay>>
    /\ UNCHANGED <<hvars, interrupted, client_key, conv_steps, args_output, output_path,
                   chunk_paths, i, chunk_retry, chunk_outputs, failed_chunks,
                   chunk_files, merged_file, result, signed_url, result_path,
                   outer_sleeps, convLog>>
    /\ UNCHANGED <<wvars, svars>>

InitMain ==
    /\ SplitInputs(MaxMainPages, MaxMainPages + 1)
    /\ NotStarted
    /\ pc = "start"
    /\ args_api_key \in {"None", "flag-key"}
    /\ env_api_key \in {"None", "env-key"}
    /\ api_key = "None"
    /\ args_max_retries \in 0..MaxArgRetries
    /\ args_retry_delay \in 1..MaxArgDelay
    /\ counting = FALSE

NextMain ==
    \/ MainCredential
    \/ Next

SpecMain == InitMain /\ [][NextMain]_vars

(***************************************************************************)
(* Properties of retry_on_error (checked under SpecRetry)                  *)
(***************************************************************************)
RECURSIVE Pow(_, _)
Pow(b, n) == IF n = 0 THEN 1 ELSE b * Pow(b, n - 1)

\* C1: with max_retries = N >= 0, once the wrapper has raised, a function that
\* failed with a retryable error on every call was invoked exactly N+1 times,
\* and a function whose first call failed with a non-retryable error was
\* invoked exactly once.
C1_InvocationCount ==
    (fn = "func" /\ wpc = "raised" /\ max_retries >= 0) =>
        /\ AllRetryable => calls = max_retries + 1
        /\ outcomes[1] = "other" => calls = 1

C1_Witness ==
    /\ fn = "func" /\ wpc = "raised" /\ max_retries = 2
    /\ AllRetryable /\ calls = 3

\* C3: the sleeps of one wrapper call are d, d*f, d*f^2, ...: as many sleeps
\* as retries started, the k-th of exactly d*f^(k-1), none before the first
\* attempt, and exactly one between consecutive attempts.
C3_BackoffSequence ==
    (fn = "func" /\ max_retries >= 0) =>
        /\ Len(sleeps) = retry
        /\ \A k \in 1..Len(sleeps) :
              sleeps[k] = initial_delay * Pow(backoff_factor, k - 1)
        /\ calls = 0 => sleeps = <<>>
        /\ wpc = "try" => calls = Len(sleeps)
        /\ wpc # "try" => calls = Len(sleeps) + 1

C3_Witness ==
    /\ fn = "func" /\ initial_delay = 2 /\ backoff_factor = 3
    /\ sleeps = <<2, 6, 18>> /\ calls = 4

\* C4: when every attempt failed with a retryable error, the exception leaving
\* the wrapper is the very object raised by the last, (N+1)-th, attempt.
C4_LastErrorReraised ==
    (fn = "func" /\ wpc = "raised" /\ max_retries >= 0 /\ AllRetryable) =>
        /\ raised = func_exc
        /\ raised.id = max_retries + 1
        /\ raised.kind \in retry_on_exceptions

C4_Witness ==
    /\ fn = "func" /\ wpc = "raised" /\ max_retries = 3 /\ AllRetryable
    /\ raised = [kind |-> "MistralAPIException", status_code |-> 502, id |-> 4]

(***************************************************************************)
(* Properties of split_pdf (checked under SpecSplit)                       *)
(***************************************************************************)
SplitChunks == split_result.chunks

\* the chunks that hold page p
ChunksHolding(p) ==
    {k \in 1..Len(SplitChunks) : SplitChunks[k].start <= p /\ p < SplitChunks[k].end}

RECURSIVE PageCountSum(_, _)
PageCountSum(cs, n) ==
    IF n = 0 THEN 0 ELSE (cs[n].end - cs[n].start) + PageCountSum(cs, n - 1)

\* C5: for total_pages >= 1 and num_chunks >= 1 the chunks' ranges are
\* ascending, contiguous, non-overlapping and non-empty, their page counts
\* sum to total_pages, and every page belongs to exactly one chunk.
C5_Partition ==
    (split_result # NotSplit /\ pdf_readable /\ total_pages >= 1 /\ num_chunks >= 1) =>
        /\ split_result.err = "none"
        /\ Len(SplitChunks) >= 1
        /\ SplitChunks[1].start = 0
        /\ SplitChunks[Len(SplitChunks)].end = total_pages
        /\ \A k \in 1..Len(SplitChunks) : SplitChunks[k].start < SplitChunks[k].end
        /\ \A k \in 1..(Len(SplitChunks) - 1) : SplitChunks[k].end = SplitChunks[k + 1].start
        /\ PageCountSum(SplitChunks, Len(SplitChunks)) = total_pages
        /\ \A p \in 0..(total_pages - 1) : Cardinality(ChunksHolding(p)) = 1

C5_Witness ==
    /\ total_pages = 7 /\ num_chunks = 3
    /\ SplitChunks = <<[start |-> 0, end |-> 3], [start |-> 3, end |-> 6],
                       [start |-> 6, end |-> 7]>>

\* C6: for num_chunks > total_pages >= 1 there are exactly total_pages chunks
\* of one page each, not num_chunks chunks.
C6_OnePagePerChunk ==
    (split_result # NotSplit /\ pdf_readable /\ total_pages >= 1
        /\ num_chunks > total_pages) =>
        /\ Len(SplitChunks) = total_pages
        /\ Len(SplitChunks) # num_chunks
        /\ \A k \in 1..Len(SplitChunks) : SplitChunks[k].end - SplitChunks[k].start = 1

C6_Witness ==
    /\ total_pages = 3 /\ num_chunks = 10 /\ Len(SplitChunks) = 3
    /\ SplitChunks[3] = [start |-> 2, end |-> 3]

\* the least p >= 1 with p * num_chunks >= total_pages
LeastCover ==
    CHOOSE p \in 1..Max(1, total_pages) :
        /\ p * num_chunks >= total_pages
        /\ (p > 1 => (p - 1) * num_chunks < total_pages)

\* C22: for total_pages >= 1 and num_chunks >= 1 split_pdf never returns more
\* than num_chunks chunks, and every chunk but the last holds exactly
\* pages_per_chunk = ceil(total_pages / num_chunks) pages (the last holds
\* between one page and that many).
C22_AtMostTargetChunks ==
    (split_result # NotSplit /\ pdf_readable /\ total_pages >= 1 /\ num_chunks >= 1) =>
        /\ Len(SplitChunks) <= num_chunks
        /\ \A k \in 1..(Len(SplitChunks) - 1) :
              SplitChunks[k].end - SplitChunks[k].start = LeastCover
        /\ \A k \in 1..Len(SplitChunks) :
              SplitChunks[k].end - SplitChunks[k].start \in 1..LeastCover

C22_Witness ==
    /\ total_pages = 5 /\ num_chunks = 4 /\ Len(SplitChunks) = 3
    /\ SplitChunks = <<[start |-> 0, end |-> 2], [start |-> 2, end |-> 4],
                       [start |-> 4, end |-> 5]>>

\* C7: splitting a readable document of zero pages fails with an error
\* instead of returning a list of chunks.
C7_ZeroPagesIsError ==
    (split_result # NotSplit /\ pdf_readable /\ total_pages = 0 /\ num_chunks >= 1) =>
        split_result.err # "none"

(***************************************************************************)
(* Properties of the remote calls and the chunked pipeline (checked under  *)
(* Spec, C10 under LiveSpec)                                               *)
(***************************************************************************)
\* a PermanentError reported by the service: bad request
IsPermanent(e) == e.kind = "MistralAPIException" /\ e.status_code = 400

\* C2: a remote call that fails with a PermanentError is never retried: no
\* backoff sleep follows it and the failing invocation is the only one.
C2_PermanentNeverRetried ==
    (fn \in RemoteCalls /\ IsPermanent(func_exc)) => (wpc = "raised" /\ calls = 1)

NumChunks == Len(chunk_paths)

\* every convert call made for ordinal k failed / succeeded
AlwaysFails(k) == convLog[k] # <<>> /\ \A j \in 1..Len(convLog[k]) : ~convLog[k][j]
AlwaysSucceeds(k) == convLog[k] # <<>> /\ \A j \in 1..Len(convLog[k]) : convLog[k][j]

FailSet == {k \in 1..NumChunks : AlwaysFails(k)}

SeqToSet(q) == {q[k] : k \in 1..Len(q)}
IsAscending(q) == \A j, k \in 1..Len(q) : j < k => q[j] < q[k]

\* the page tokens of a file, separators dropped
IsPage(t) == t # Sep
PagesOf(content) == SelectSeq(content, IsPage)

\* the pages of the chunks outside F, in document order
RECURSIVE PagesOutside(_, _)
PagesOutside(F, p) ==
    IF p > total_pages THEN <<>>
    ELSE (IF \E k \in 1..NumChunks \ F : chunk_paths[k].start < p /\ p <= chunk_paths[k].end
          THEN <<p>> ELSE <<>>) \o PagesOutside(F, p + 1)

PipelineEnded == pc = "done" /\ split_result.err = "none"

\* C8: when a non-empty proper subset F of the chunks always fails and every
\* other chunk always succeeds, the run ends Partial: the failed ordinals are
\* exactly F, the merged output is returned, and it holds exactly the outputs
\* of the chunks outside F in ascending ordinal order.
C8_PartialOutcome ==
    (PipelineEnded /\ FailSet # {} /\ FailSet # 1..NumChunks
        /\ \A k \in 1..NumChunks \ FailSet : AlwaysSucceeds(k)) =>
        /\ PipelineStatus = "Partial"
        /\ SeqToSet(failed_chunks) = FailSet
        /\ Len(failed_chunks) = Cardinality(FailSet)
        /\ result = output_path
        /\ merged_file # NoFile
        /\ SeqToSet(chunk_outputs) = 1..NumChunks \ FailSet
        /\ IsAscending(chunk_outputs)
        /\ PagesOf(merged_file) = PagesOutside(FailSet, 1)

C8_Witness ==
    /\ PipelineEnded /\ NumChunks = 4 /\ FailSet = {3}
    /\ \A k \in {1, 2, 4} : AlwaysSucceeds(k)
    /\ failed_chunks = <<3>> /\ chunk_outputs = <<1, 2, 4>>
    /\ PagesOf(merged_file) = <<1, 2, 4>>

\* C9: when every chunk fails all of its outer attempts the run ends Failed:
\* None is returned and the merged output file was never written.
C9_AllFailed ==
    (PipelineEnded /\ NumChunks >= 1 /\ FailSet = 1..NumChunks) =>
        /\ PipelineStatus = "Failed"
        /\ result = "None"
        /\ merged_file = NoFile

C9_Witness ==
    /\ PipelineEnded /\ NumChunks = 3 /\ FailSet = {1, 2, 3}
    /\ result = "None" /\ merged_file = NoFile

\* every chunk of the splitter was attempted and is recorded in exactly one of
\* the success list and the failed list, and the pipeline has returned
AllChunksSettled ==
    /\ pc = "done"
    /\ result # "pending"
    /\ split_result.err = "none" =>
          \A k \in 1..NumChunks :
              /\ convLog[k] # <<>>
              /\ (k \in SeqToSet(chunk_outputs)) # (k \in SeqToSet(failed_chunks))

\* C10: whatever the pattern of chunk successes and failures, every chunk is
\* eventually attempted and reaches Succeeded or Failed, and the pipeline
\* then terminates with an outcome.
C10_PipelineCompletes == <>AllChunksSettled

C10_Witness ==
    /\ AllChunksSettled /\ split_result.err = "none"
    /\ failed_chunks = <<1, 3>> /\ chunk_outputs = <<2, 4>>

\* the chunk outputs joined with "\n\n" between consecutive outputs only
RECURSIVE JoinedContent(_, _)
JoinedContent(outs, files) ==
    IF outs = <<>> THEN <<>>
    ELSE IF Len(outs) = 1 THEN files[outs[1]]
    ELSE files[Head(outs)] \o <<Sep>> \o JoinedContent(Tail(outs), files)

\* C11: the merged text is the successful chunks' outputs in ascending
\* ordinal order, each verbatim, with the blank-line separator only between
\* two outputs (one successful chunk merges to exactly its own content).
C11_MergedIsJoin ==
    merged_file # NoFile =>
        /\ IsAscending(chunk_outputs)
        /\ merged_file = JoinedContent(chunk_outputs, chunk_files)

Settled == SeqToSet(chunk_outputs) \cup SeqToSet(failed_chunks)

\* the chunks neither succeeded nor failed: pending or being attempted
Unsettled == (1..NumChunks) \ Settled

\* C14: the merged output file is written only once every chunk is Succeeded
\* or Failed and at least one succeeded; while a chunk is pending or being
\* attempted only the per-chunk files of the succeeded chunks exist.
C14_MergedOnlyAfterAllChunks ==
    /\ merged_file # NoFile =>
          /\ pc = "done"
          /\ Unsettled = {}
          /\ chunk_outputs # <<>>
    /\ (Unsettled # {} \/ pc # "done") => merged_file = NoFile
    /\ \A k \in 1..NumChunks :
          chunk_files[k] # NoFile <=> (k \in SeqToSet(chunk_outputs) \/ (result_path = k /\ pc = "converted"))

C14_Witness ==
    /\ pc = "done" /\ merged_file # NoFile /\ NumChunks = 3
    /\ failed_chunks = <<2>> /\ chunk_outputs = <<1, 3>>

NoDuplicates(q) == \A j, k \in 1..Len(q) : q[j] = q[k] => j = k

\* the ordinal whose retry loop is running
Attempting == IF pc \in {"convert", "upload", "ocr", "converted"} THEN {i + 1} ELSE {}

ChunkListsExclusive ==
    /\ NoDuplicates(chunk_outputs)
    /\ NoDuplicates(failed_chunks)
    /\ SeqToSet(chunk_outputs) \cap SeqToSet(failed_chunks) = {}
    /\ Settled \subseteq 1..NumChunks
    /\ Attempting \cap Settled = {}
    /\ PipelineEnded =>
          /\ Settled = 1..NumChunks
          /\ Len(chunk_outputs) + Len(failed_chunks) = NumChunks

\* a settled chunk stays where it is and is not attempted again
SettledStaysSettled ==
    /\ \A k \in SeqToSet(chunk_outputs) :
          /\ k \in SeqToSet(chunk_outputs')
          /\ convLog'[k] = convLog[k]
          /\ chunk_files'[k] = chunk_files[k]
    /\ \A k \in SeqToSet(failed_chunks) :
          /\ k \in SeqToSet(failed_chunks')
          /\ convLog'[k] = convLog[k]

\* C16: Succeeded and Failed are terminal and exclusive: a recorded chunk is
\* never attempted again and never changes list, no ordinal is recorded
\* twice, and at the end every ordinal is in exactly one of the two lists.
C16_TerminalAndExclusive == [](ChunkListsExclusive) /\ [][SettledStaysSettled]_vars

C16_Witness ==
    /\ PipelineEnded /\ NumChunks = 4
    /\ chunk_outputs = <<1, 4>> /\ failed_chunks = <<2, 3>>

\* the sleeps that follow the first n failed attempts of a chunk
OuterSleepsAfter(n) == [a \in 1..n |-> 2 * a]

AllFalse(q) == \A j \in 1..Len(q) : ~q[j]

\* C17: a chunk gets at most 3 whole-chunk attempts and is recorded failed
\* only after exactly 3 failed ones; the a-th failed attempt (a = 1, 2) is
\* followed by a sleep of 2*a seconds, and no outer sleep follows a successful
\* attempt or the final failed attempt.
C17_OuterAttempts ==
    /\ max_chunk_retries + 1 = 3
    /\ \A k \in 1..NumChunks : Len(convLog[k]) <= 3
    /\ \A k \in SeqToSet(failed_chunks) : Len(convLog[k]) = 3 /\ AllFalse(convLog[k])
    /\ \A k \in SeqToSet(chunk_outputs) :
          convLog[k][Len(convLog[k])] /\ AllFalse(SubSeq(convLog[k], 1, Len(convLog[k]) - 1))
    /\ pc \in {"convert", "upload", "ocr"} =>
          /\ AllFalse(convLog[i + 1])
          /\ outer_sleeps = OuterSleepsAfter(Len(convLog[i + 1]))
    /\ pc = "converted" => outer_sleeps = OuterSleepsAfter(Len(convLog[i + 1]) - 1)
    /\ (pc \in {"for_chunk", "done"} /\ i >= 1) =>
          outer_sleeps = OuterSleepsAfter(Len(convLog[i]) - 1)

C17_Witness ==
    /\ pc = "for_chunk" /\ i = 2 /\ failed_chunks = <<2>>
    /\ convLog[2] = <<FALSE, FALSE, FALSE>> /\ outer_sleeps = <<2, 4>>

(***************************************************************************)
(* More properties of retry_on_error (checked under SpecRetry)             *)
(***************************************************************************)
\* C18: a function that first succeeds on its k-th attempt (k <= N+1) is
\* invoked exactly k times after exactly k-1 sleeps and the wrapper returns
\* its result with nothing further; with max_retries = 0 there is exactly one
\* attempt and no sleep whether it succeeds or fails.
C18_SuccessOnKthAttempt ==
    fn = "func" =>
        /\ wpc = "returned" =>
              /\ calls \in 1..(max_retries + 1)
              /\ Len(outcomes) = calls
              /\ outcomes[calls] = "ok"
              /\ \A j \in 1..(calls - 1) : outcomes[j] = "retryable"
              /\ Len(sleeps) = calls - 1
              /\ wret = <<"ok">>
              /\ ~ENABLED NextRetry
        /\ max_retries = 0 =>
              /\ sleeps = <<>>
              /\ wpc # "sleep"
              /\ wpc \in {"returned", "raised"} => calls = 1

C18_Witness ==
    /\ fn = "func" /\ wpc = "returned" /\ max_retries = 3
    /\ outcomes = <<"retryable", "retryable", "ok">> /\ Len(sleeps) = 2

(***************************************************************************)
(* Properties of convert_pdf_to_markdown and of a failed split (Spec)      *)
(***************************************************************************)
SplitFails == ~pdf_readable \/ num_chunks = 0

\* C20: when split_pdf raises (unreadable source, or num_chunks = 0), the
\* pipeline returns None at once: no chunk is listed or attempted, no remote
\* call is made, no merged output is written, and nothing but failure is
\* returned; no remote call precedes the split either.
C20_SplitFailureFailsFast ==
    /\ pc \in {"main", "split"} => ~remote_made
    /\ (SplitFails /\ pc \notin {"main", "split"}) =>
          /\ pc = "done"
          /\ split_result.err \in {"PdfReadError", "ZeroDivisionError"}
          /\ result = "None"
          /\ ~remote_made /\ fn = "none"
          /\ chunk_paths = <<>> /\ convLog = <<>>
          /\ chunk_outputs = <<>> /\ failed_chunks = <<>>
          /\ merged_file = NoFile

C20_Witness ==
    /\ pc = "done" /\ pdf_readable /\ total_pages = 3 /\ num_chunks = 0
    /\ split_result.err = "ZeroDivisionError"
    /\ result = "None" /\ ~remote_made /\ merged_file = NoFile

LastStep == conv_steps[Len(conv_steps)]

\* C15: process_with_ocr is called only after upload_file_to_ocr_service has
\* returned, with the signed URL that this attempt's upload returned; when
\* either call raises out of its retries the conversion returns None, no OCR
\* call follows a failed upload, and the output file is not written; when both
\* return, the file holds the markdown of the uploaded chunk.
C15_ExtractAfterSubmit ==
    /\ fn = "process_with_ocr" =>
          /\ conv_steps = <<[op |-> "submit", ok |-> TRUE, ref |-> signed_url]>>
          /\ signed_url[1] = "url" /\ signed_url[2] = i + 1
          /\ signed_url[3] = chunk_retry
    /\ \A k \in 1..Len(conv_steps) :
          conv_steps[k].op = "extract" =>
             /\ k = 2
             /\ conv_steps[1] = [op |-> "submit", ok |-> TRUE,
                                 ref |-> conv_steps[2].ref]
             /\ conv_steps[2].ref # <<>>
    /\ (pc = "converted" /\ result_path = 0) =>
          /\ conv_steps # <<>>
          /\ ~LastStep.ok
          /\ (conv_steps[1].ok = FALSE => Len(conv_steps) = 1)
          /\ chunk_files[i + 1] = NoFile
    /\ (pc = "converted" /\ result_path # 0) =>
          /\ Len(conv_steps) = 2
          /\ conv_steps[1].ok /\ conv_steps[2].ok
          /\ chunk_files[i + 1] = get_combined_markdown(i + 1)

C15_Witness ==
    /\ pc = "converted" /\ result_path = 0
    /\ Len(conv_steps) = 2 /\ conv_steps[1].ok /\ ~conv_steps[2].ok
    /\ chunk_retry = 1
    /\ convLog[i + 1] = <<FALSE, FALSE>>
    /\ chunk_files[i + 1] = NoFile

(***************************************************************************)
(* Properties of main's command line (checked under SpecMain)              *)
(***************************************************************************)
\* C12: with --max-retries N and --retry-delay d, a remote call that failed
\* with a retryable error on every call has been invoked N+1 times when the
\* wrapper raises, and the first backoff sleep of a remote call lasts d.
C12_CliOverridesRetryPolicy ==
    /\ (fn \in RemoteCalls /\ wpc = "raised" /\ AllRetryable) =>
          calls = args_max_retries + 1
    /\ (fn \in RemoteCalls /\ sleeps # <<>>) => sleeps[1] = args_retry_delay

\* C13: every remote call is made by a client built with the --api-key value
\* when it was given and with MISTRAL_API_KEY otherwise; with neither, main
\* ends in the configuration error: no remote call was or will be made and
\* nothing more runs.
C13_CredentialResolution ==
    /\ fn \in RemoteCalls =>
          /\ client_key # "None"
          /\ client_key = IF args_api_key # "None" THEN args_api_key
                                                   ELSE env_api_key
    /\ remote_made => (args_api_key # "None" \/ env_api_key # "None")
    /\ (args_api_key = "None" /\ env_api_key = "None" /\ pc # "start") =>
          /\ pc = "config_error"
          /\ fn = "none" /\ ~remote_made /\ client_key = "None"
          /\ split_result = NotSplit /\ merged_file = NoFile
          /\ ~ENABLED NextMain

C13_Witness ==
    /\ fn = "process_with_ocr" /\ wpc = "try"
    /\ args_api_key = "flag-key" /\ env_api_key = "env-key"
    /\ client_key = "flag-key"

(***************************************************************************)
(* Property of the interrupt (checked under SpecInterrupt)                 *)
(***************************************************************************)
\* C19: once a KeyboardInterrupt has arrived during a remote call, a backoff
\* sleep or the sleep between two attempts of a chunk, the pipeline is over:
\* no call is in progress, nothing more runs (no retry of the chunk, no later
\* chunk, no combine), process_pdf_in_chunks returned nothing and the merged
\* file was not written although chunks may have succeeded.
C19_InterruptAborts ==
    interrupted =>
        /\ pc = "interrupted"
        /\ fn = "none"
        /\ result = "pending"
        /\ merged_file = NoFile
        /\ ~ENABLED NextInterrupt

C19_Witness ==
    /\ interrupted /\ pc = "interrupted"
    /\ chunk_outputs = <<1>> /\ failed_chunks = <<>>
    /\ i = 1 /\ chunk_retry = 1 /\ NumChunks = 3
    /\ merged_file = NoFile

(***************************************************************************)
(* Property of the two retry tiers together (checked under SpecTiers)      *)
(***************************************************************************)
\* invocations of each remote function for the current chunk, the running
\* wrapper activation included
UploadInvocations ==
    upload_calls + (IF fn = "upload_file_to_ocr_service" THEN calls ELSE 0)

OcrInvocations ==
    ocr_calls + (IF fn = "process_with_ocr" THEN calls ELSE 0)

\* the chunk of ordinal i has just been appended to failed_chunks
JustFailed ==
    /\ pc = "for_chunk"
    /\ failed_chunks # <<>>
    /\ failed_chunks[Len(failed_chunks)] = i

\* the chunk's last convert call has failed and no attempt is left
AboutToFail ==
    pc = "converted" /\ result_path = 0 /\ chunk_retry = max_chunk_retries

\* C21: a chunk whose upload raised a retryable error on every invocation is
\* recorded as failed after exactly 12 upload invocations and no OCR
\* invocation; for every chunk, at every moment, at most 12 upload and 12 OCR
\* invocations (24 remote invocations) have been made.
C21_TiersMultiply ==
    /\ UploadInvocations <= 12
    /\ OcrInvocations <= 12
    /\ UploadInvocations + OcrInvocations <= 24
    /\ ((JustFailed \/ AboutToFail) /\ upload_retryable) =>
          /\ upload_calls = 12
          /\ ocr_calls = 0
          /\ convLog[IF JustFailed THEN i ELSE i + 1] = <<FALSE, FALSE, FALSE>>

C21_Witness ==
    /\ JustFailed /\ upload_retryable
    /\ failed_chunks = <<1>> /\ NumChunks = 2
    /\ upload_calls = 12 /\ ocr_calls = 0

\* the reference held during an OCR call is the one this attempt's upload of
\* this chunk returned
RefIsOfThisAttempt ==
    fn = "process_with_ocr" =>
        /\ Len(signed_url) = 4 /\ signed_url[1] = "url"
        /\ signed_url[2] = i + 1
        /\ signed_url[3] = chunk_retry
        /\ conv_steps[1].ref = signed_url

\* no reference is held outside the OCR step of a convert call
NoRefBetweenAttempts == pc # "ocr" => signed_url = <<>>

\* every convert call of the chunk so far invoked the upload at least once
UploadedInEveryAttempt ==
    (counting /\ pc \in {"ocr", "converted"}) => upload_calls >= chunk_retry + 1

\* a convert call begins with a fresh activation of the upload wrapper
AttemptStartsWithUpload ==
    (pc = "convert" /\ pc' # "convert") =>
        /\ pc' = "upload"
        /\ fn' = "upload_file_to_ocr_service" /\ calls' = 0
        /\ conv_steps' = <<>> /\ signed_url' = <<>>

\* C23: every attempt of a chunk starts with a new upload; no signed URL
\* survives from one attempt to the next, the OCR call is made with the URL
\* returned by the upload of the same attempt, and a chunk whose OCR call
\* failed is uploaded again in each later attempt.
C23_FreshUploadPerAttempt ==
    /\ [](RefIsOfThisAttempt /\ NoRefBetweenAttempts /\ UploadedInEveryAttempt)
    /\ [][AttemptStartsWithUpload]_vars

C23_Witness ==
    /\ fn = "process_with_ocr" /\ wpc = "try"
    /\ chunk_retry = 2
    /\ convLog[i + 1] = <<FALSE, FALSE>>
    /\ ocr_calls >= 2 /\ upload_calls >= 3
    /\ signed_url[3] = 2

====
